---- MODULE Spec2Model ----
(***************************************************************************)
(* Model of the torrent gateway of movies-backend: the two server builds   *)
(* (src/unnamed/part_000 with ZIP expansion, src/api/index.js without),    *)
(* their /list-files and /stream handlers, the WebTorrent client registry  *)
(* they share, and the read streams they open.                             *)
(* Followed on their own: extractZip event by event, extractInfoHash on    *)
(* magnet texts, and fetchMovies with the movie cache of src/api/index.js. *)
(*                                                                         *)
(* Strings are sequences of one-character strings, so that the regular     *)
(* expression match, toLowerCase, path.extname, split and Number are       *)
(* computed on the text as the code computes them.                         *)
(***************************************************************************)
EXTENDS Integers, Sequences, FiniteSets, TLC

VARIABLES build, torrents, reqs, stream, crashed, zip, parse, fetch

vars == <<build, torrents, reqs, stream, crashed, zip, parse, fetch>>

-----------------------------------------------------------------------------
(* Bounds of the model.                                                    *)

\* number of /list-files requests that arrive when only they are followed
MaxReq == 3
\* number of /list-files requests (at most MaxReq) that arrive next to the
\* /stream request; one /stream request is followed: it writes no state that
\* another request reads
MaxBeside == 2
\* number of 'data' events one read stream delivers before it must end
MaxChunks == 1

-----------------------------------------------------------------------------
(* Text helpers.                                                           *)

Null == <<"null">>

Min2(a, b) == IF a <= b THEN a ELSE b

Rep(c, n) == [i \in 1..n |-> c]

HexLower == {"0", "1", "2", "3", "4", "5", "6", "7", "8", "9",
             "a", "b", "c", "d", "e", "f"}
HexUpper == {"A", "B", "C", "D", "E", "F"}
\* the character class [a-fA-F0-9]
HexDigit == HexLower \cup HexUpper

UpperToLower ==
  [c \in {"A", "B", "C", "D", "E", "F", "G", "I", "J", "K", "M", "N", "P", "V", "Z"} |->
     CASE c = "A" -> "a" [] c = "B" -> "b" [] c = "C" -> "c" [] c = "D" -> "d"
       [] c = "E" -> "e" [] c = "F" -> "f" [] c = "G" -> "g" [] c = "I" -> "i"
       [] c = "J" -> "j" [] c = "K" -> "k" [] c = "M" -> "m" [] c = "N" -> "n"
       [] c = "P" -> "p" [] c = "V" -> "v" [] c = "Z" -> "z"]

\* String.prototype.toLowerCase
toLowerCase(s) ==
  [i \in 1..Len(s) |-> IF s[i] \in DOMAIN UpperToLower THEN UpperToLower[s[i]] ELSE s[i]]

\* the positions at which the text pat occurs in s
Occurrences(s, pat) ==
  {i \in 1..(Len(s) - Len(pat) + 1) : SubSeq(s, i, i + Len(pat) - 1) = pat}

SetMin(S) == CHOOSE x \in S : \A y \in S : x <= y
SetMax(S) == CHOOSE x \in S : \A y \in S : x >= y

-----------------------------------------------------------------------------
(* extractInfoHash: magnet.match(/urn:btih:([a-fA-F0-9]{40})/), group 1   *)
(* lowercased, or null.                                                    *)

HashLen == 40
UrnBtih == <<"u", "r", "n", ":", "b", "t", "i", "h", ":">>

\* start positions of the hex digits of every match of the expression, n
\* being the repetition count of the character class
MatchStarts(magnet, n) ==
  {i + Len(UrnBtih) : i \in
     {j \in Occurrences(magnet, UrnBtih) :
        /\ j + Len(UrnBtih) + n - 1 <= Len(magnet)
        /\ \A k \in 0..(n - 1) : magnet[j + Len(UrnBtih) + k] \in HexDigit}}

\* the expression with its repetition count one short
extractInfoHash_Short(magnet) ==
  IF MatchStarts(magnet, HashLen - 1) = {} THEN Null
  ELSE LET s == SetMin(MatchStarts(magnet, HashLen - 1))
       IN  toLowerCase(SubSeq(magnet, s, s + HashLen - 2))

\* the match returned as it is written in the text
extractInfoHash_Cased(magnet) ==
  IF MatchStarts(magnet, HashLen) = {} THEN Null
  ELSE LET s == SetMin(MatchStarts(magnet, HashLen))
       IN  SubSeq(magnet, s, s + HashLen - 1)

extractInfoHash(magnet) ==
  IF MatchStarts(magnet, HashLen) = {} THEN Null
  ELSE LET s == SetMin(MatchStarts(magnet, HashLen))
       IN  toLowerCase(SubSeq(magnet, s, s + HashLen - 1))

-----------------------------------------------------------------------------
(* getFileType: path.extname(fileName).toLowerCase() against the lists.    *)

Builds == {"part_000", "api_index"}

\* the last path component: trailing '/' are ignored, then the text after the
\* last '/' that is left
BaseName(name) ==
  LET solid == {i \in 1..Len(name) : name[i] # "/"}
      trimmed == IF solid = {} THEN <<>> ELSE SubSeq(name, 1, SetMax(solid))
      slashes == {i \in 1..Len(trimmed) : trimmed[i] = "/"}
  IN  IF slashes = {} THEN trimmed
      ELSE SubSeq(trimmed, SetMax(slashes) + 1, Len(trimmed))

\* path.extname: from the last '.' of the base name; '' when there is none
\* or when the base name starts with its only '.'
extname(name) ==
  LET b == BaseName(name)
      dots == {i \in 1..Len(b) : b[i] = "."}
  IN  IF dots = {} \/ SetMax(dots) = 1 THEN <<>>
      ELSE SubSeq(b, SetMax(dots), Len(b))

VideoExts == {<<".", "m", "p", "4">>, <<".", "m", "k", "v">>, <<".", "a", "v", "i">>}
ImageExts == {<<".", "j", "p", "g">>, <<".", "j", "p", "e", "g">>,
              <<".", "p", "n", "g">>, <<".", "g", "i", "f">>}
ZipExt == <<".", "z", "i", "p">>

getFileType(b, fileName) ==
  LET ext == toLowerCase(extname(fileName))
  IN  IF ext \in VideoExts THEN "video"
      ELSE IF ext \in ImageExts THEN "image"
      ELSE IF b = "part_000" /\ ext = ZipExt THEN "zip"
      ELSE "other"

-----------------------------------------------------------------------------
(* JavaScript numbers as the range arithmetic meets them: a finite        *)
(* integer, NaN, or undefined (a missing array element).                   *)

Num(n) == [k |-> "num", v |-> n]
NaN == [k |-> "nan", v |-> 0]
Undefined == [k |-> "undef", v |-> 0]

IsNum(x) == x.k = "num"
\* ToBoolean: 0, NaN and undefined are falsy
Truthy(x) == x.k = "num" /\ x.v # 0
\* a + b, a - b and Math.min(a, b); any operand that is not a number gives NaN
JsAdd(a, b) == IF IsNum(a) /\ IsNum(b) THEN Num(a.v + b.v) ELSE NaN
JsSub(a, b) == IF IsNum(a) /\ IsNum(b) THEN Num(a.v - b.v) ELSE NaN
JsMin(a, b) == IF IsNum(a) /\ IsNum(b) THEN Num(Min2(a.v, b.v)) ELSE NaN

Digits == <<"0", "1", "2", "3", "4", "5", "6", "7", "8", "9">>
DigitValue(c) == (CHOOSE i \in 1..10 : Digits[i] = c) - 1
IsDigit(c) == \E i \in 1..10 : Digits[i] = c

RECURSIVE DecimalValue(_)
DecimalValue(s) ==
  IF s = <<>> THEN 0
  ELSE 10 * DecimalValue(SubSeq(s, 1, Len(s) - 1)) + DigitValue(s[Len(s)])

\* Number(s) on the texts the model sends: '' is 0, a run of decimal digits is
\* its value, any other text is NaN
Number(s) ==
  IF \A i \in 1..Len(s) : IsDigit(s[i]) THEN Num(DecimalValue(s)) ELSE NaN

\* s.replace(/bytes=/, ''): the first occurrence removed
BytesEq == <<"b", "y", "t", "e", "s", "=">>
ReplaceBytes(s) ==
  IF Occurrences(s, BytesEq) = {} THEN s
  ELSE LET i == SetMin(Occurrences(s, BytesEq))
       IN  SubSeq(s, 1, i - 1) \o SubSeq(s, i + Len(BytesEq), Len(s))

\* s.split('-')
RECURSIVE Split(_)
Split(s) ==
  LET dashes == {i \in 1..Len(s) : s[i] = "-"}
  IN  IF dashes = {} THEN <<s>>
      ELSE LET i == SetMin(dashes)
           IN  <<SubSeq(s, 1, i - 1)>> \o Split(SubSeq(s, i + 1, Len(s)))

\* const [start, end] = range.replace(/bytes=/, '').split('-').map(Number)
ParseRange(range) ==
  LET parts == Split(ReplaceBytes(range))
  IN  [start |-> Number(parts[1]),
       end   |-> IF Len(parts) >= 2 THEN Number(parts[2]) ELSE Undefined]

\* 10 ** 6
ChunkSize == 1000000

\* const chunkEnd = end || Math.min(start + 10 ** 6, fileSize - 1)
ChunkEnd(start, end, fileSize) ==
  IF Truthy(end) THEN end
  ELSE JsMin(JsAdd(start, Num(ChunkSize)), JsSub(Num(fileSize), Num(1)))

\* const contentLength = chunkEnd - start + 1
ContentLength(start, chunkEnd) == JsAdd(JsSub(chunkEnd, start), Num(1))

-----------------------------------------------------------------------------
(* The inputs: magnet texts, the swarms behind them, file names and Range  *)
(* headers that requests carry.                                            *)

Pre == <<"x", "t", "=">>
Post == <<"&", "d", "n">>

HashA == Rep("a", HashLen)
HashAMixed == [i \in 1..HashLen |-> IF i % 2 = 0 THEN "A" ELSE "a"]
HashB == [i \in 1..HashLen |-> IF i % 2 = 0 THEN "b" ELSE "1"]

MagA == Pre \o UrnBtih \o HashA
MagAUpper == UrnBtih \o HashAMixed \o Post
MagB == UrnBtih \o HashB
\* one hex digit short of a hash
MagShort == Pre \o UrnBtih \o Rep("a", HashLen - 1) \o Post

Magnets == {MagA, MagAUpper, MagB, MagShort}

NameMovie == <<"m", ".", "m", "p", "4">>
NamePic == <<"p", ".", "P", "N", "G">>
NameNotes == <<"n", ".", "t", "x", "t">>
NameZip == <<"z", ".", "z", "i", "p">>
NameClip == <<"c", ".", "m", "k", "v">>
NameInner == <<"i", ".", "m", "p", "4">>

TorrentDir == <<"t", "/">>

RawFile(name, length) == [name |-> name, length |-> length, path |-> TorrentDir \o name]

\* the file list the swarm of an info-hash reports once its metadata is known
SwarmFiles(infoHash) ==
  IF infoHash = HashA
    THEN <<RawFile(NameMovie, 5000000), RawFile(NamePic, 500),
           RawFile(NameNotes, 10), RawFile(NameZip, 900)>>
  ELSE IF infoHash = HashB
    THEN <<RawFile(NameClip, 1500)>>
  ELSE <<>>

\* the central directory of a ZIP container of the swarm, in entry order
ZipEntries(file) ==
  IF file.name = NameZip
    THEN <<[fileName |-> NameInner, uncompressedSize |-> 700],
           [fileName |-> <<"d", "/">>, uncompressedSize |-> 0],
           [fileName |-> <<"r", ".", "t", "x", "t">>, uncompressedSize |-> 10],
           [fileName |-> <<"d", "/", "q", ".", "j", "p", "g">>, uncompressedSize |-> 20]>>
  ELSE <<>>

\* the names /stream requests ask for
FileNames == {NameMovie, NamePic, NameZip, NameInner}

\* decimal text of a natural number
RECURSIVE DecimalText(_)
DecimalText(n) ==
  IF n < 10 THEN <<Digits[n + 1]>> ELSE DecimalText(n \div 10) \o <<Digits[(n % 10) + 1]>>

\* the header `bytes=<start>-` and the header `bytes=<start>-<end>`
OpenRange(start) == BytesEq \o DecimalText(start) \o <<"-">>
ClosedRange(start, end) == OpenRange(start) \o DecimalText(end)

OpenStarts == {0, 4999000}
ClosedPairs == {<<0, 0>>, <<9, 5>>}

RangeTexts ==
  {OpenRange(s) : s \in OpenStarts} \cup {ClosedRange(p[1], p[2]) : p \in ClosedPairs}

\* req.headers.range: absent, or one of the texts
Present(text) == [present |-> TRUE, text |-> text]
Absent == [present |-> FALSE, text |-> <<>>]
\* the headers tried on the path that never reads the header
DirectHeaders == {Absent, Present(OpenRange(0))}

\* the info-hash the engine derives from a magnet it is given (its own parser:
\* the lowercase hex hash of the swarm the magnet names)
EngineInfoHash(magnet) ==
  IF magnet \in {MagA, MagAUpper} THEN HashA
  ELSE IF magnet = MagB THEN HashB
  ELSE Null

\* const infoHash = extractInfoHash(magnet), for each magnet of the model
InfoHashOf == [m \in Magnets |-> extractInfoHash(m)]

\* getFileType of the names that occur in the swarms and their archives,
\* computed once for each build; any other name is computed when it is met
SwarmNames ==
  UNION {{SwarmFiles(h)[i].name : i \in 1..Len(SwarmFiles(h))} \cup
         UNION {{ZipEntries(SwarmFiles(h)[i])[j].fileName :
                   j \in 1..Len(ZipEntries(SwarmFiles(h)[i]))} :
                i \in 1..Len(SwarmFiles(h))} :
         h \in {HashA, HashB}}

FileTypes == [b \in Builds |-> [name \in SwarmNames |-> getFileType(b, name)]]

FileType(b, fileName) ==
  IF fileName \in SwarmNames THEN FileTypes[b][fileName] ELSE getFileType(b, fileName)

-----------------------------------------------------------------------------
(* The file catalog: extractZip and getFiles.                              *)

Entry(name, length, path, type) ==
  [name |-> name, length |-> length, path |-> path, type |-> type]

\* entry.fileName.endsWith('/')
EndsWithSlash(name) == name # <<>> /\ name[Len(name)] = "/"

\* an entry handler without the test on the trailing '/'
OnEntry_Directories(b, zipFile, entry, extractedFiles) ==
  LET fileType == FileType(b, entry.fileName)
  IN  IF fileType \in {"video", "image"}
        THEN Append(extractedFiles,
                    Entry(entry.fileName, entry.uncompressedSize,
                          zipFile.path \o <<"/">> \o entry.fileName, fileType))
        ELSE extractedFiles

\* zip.on('entry', (entry) => ...): an entry that does not end with '/' and is
\* video or image is pushed on extractedFiles
OnEntry(b, zipFile, entry, extractedFiles) ==
  LET fileType == FileType(b, entry.fileName)
  IN  IF ~EndsWithSlash(entry.fileName) /\ fileType \in {"video", "image"}
        THEN Append(extractedFiles,
                    Entry(entry.fileName, entry.uncompressedSize,
                          zipFile.path \o <<"/">> \o entry.fileName, fileType))
        ELSE extractedFiles

\* the entries of a central directory handled in order, from extractedFiles
RECURSIVE ZipWalk(_, _, _, _)
ZipWalk(b, zipFile, entries, extractedFiles) ==
  IF entries = <<>> THEN extractedFiles
  ELSE ZipWalk(b, zipFile, Tail(entries),
               OnEntry(b, zipFile, Head(entries), extractedFiles))

\* extractZip(zipFile) when the archive is read and parsed without error
extractZip(b, zipFile) == ZipWalk(b, zipFile, ZipEntries(zipFile), <<>>)

\* getFiles of src/unnamed/part_000: ZIP containers are expanded in place,
\* every other file is pushed with its type
RECURSIVE getFilesZip(_, _)
getFilesZip(b, files) ==
  IF files = <<>> THEN <<>>
  ELSE LET file == Head(files)
       IN  (IF FileType(b, file.name) = "zip"
              THEN extractZip(b, file)
              ELSE <<Entry(file.name, file.length, file.path, FileType(b, file.name))>>)
           \o getFilesZip(b, Tail(files))

\* getFiles of src/api/index.js: map, then filter on video or image
getFilesFilter(b, files) ==
  SelectSeq([i \in 1..Len(files) |->
               Entry(files[i].name, files[i].length, files[i].path,
                     FileType(b, files[i].name))],
            LAMBDA e : e.type \in {"video", "image"})

HasZip(b, files) == \E i \in 1..Len(files) : FileType(b, files[i].name) = "zip"

\* the promise getFiles(torrent) returns: fulfilled with the list, or rejected
\* when extractZip rejects (zipOk is whether the archives read and parse)
getFiles(b, files, zipOk) ==
  IF b = "part_000"
    THEN IF HasZip(b, files) /\ ~zipOk
           THEN [ok |-> FALSE, files |-> <<>>]
           ELSE [ok |-> TRUE, files |-> getFilesZip(b, files)]
    ELSE [ok |-> TRUE, files |-> getFilesFilter(b, files)]

-----------------------------------------------------------------------------
(* State.                                                                  *)
(*   build     which of the two server files runs                          *)
(*   torrents  client.torrents: one object per client.add, in call order   *)
(*   reqs      the /list-files requests: what each carried and was sent    *)
(*   stream    the /stream request: what it carried, its response and read *)
(*   crashed   an 'error' event without a listener ended the process       *)
(*   zip       one extractZip call: the archive's entries and what it kept   *)
(*   parse     one extractInfoHash call: the text given and what it returned *)
(*   fetch     the movie cache and one fetchMovies call                      *)

ReqIds == 1..MaxReq

NoReq ==
  [kind |-> "none", magnet |-> <<>>, phase |-> "none", statuses |-> <<>>,
   body |-> <<>>, session |-> 0]

NoFile == [name |-> <<>>, length |-> 0, path |-> <<>>]
NoHead == [start |-> Undefined, end |-> Undefined, size |-> 0,
           length |-> Undefined, type |-> <<>>]
NoRead == [state |-> "none", bounded |-> FALSE, start |-> Undefined,
           end |-> Undefined, chunks |-> 0]

NoStream ==
  [kind |-> "none", magnet |-> <<>>, filename |-> <<>>, range |-> Absent,
   phase |-> "none", statuses |-> <<>>, headersSent |-> FALSE, head |-> NoHead,
   session |-> 0, file |-> NoFile, read |-> NoRead,
   sinkClosed |-> FALSE, resEnded |-> FALSE]

\* no extractZip call yet
NoZip ==
  [state |-> "none", file |-> NoFile, entries |-> <<>>, pos |-> 0,
   extractedFiles |-> <<>>, error |-> "none"]

\* no extractInfoHash call yet
NoParse == [state |-> "none", magnet |-> <<>>, infoHash |-> Null]

\* cache.get(key) of a key that is not held, or has expired, is undefined
NoValue == [has |-> FALSE, value |-> <<>>]
Value(v) == [has |-> TRUE, value |-> v]

CacheKeys == {"trending_movies", "recent_movies"}

\* new NodeCache(...): nothing held; no fetchMovies call yet
\* cache: what the NodeCache holds; pc, cacheKey, cachedMovies, attempt: the
\* call's position and locals; requests: the axios.get calls it has issued;
\* sets: the cache.set calls it has made; got: response.data.data of the
\* attempt that succeeded; result: what it returned
NoFetch ==
  [cache |-> [k \in CacheKeys |-> NoValue], pc |-> "none", cacheKey |-> "",
   cachedMovies |-> NoValue, attempt |-> 0, requests |-> 0, sets |-> <<>>,
   got |-> NoValue, result |-> NoValue]

Init ==
  /\ build \in Builds
  /\ torrents = <<>>
  /\ reqs = [r \in ReqIds |-> NoReq]
  /\ stream = NoStream
  /\ crashed = FALSE
  /\ zip = NoZip
  /\ parse = NoParse
  /\ fetch = NoFetch

\* /list-files requests are numbered in their order of arrival
Fresh(r) ==
  /\ ~crashed
  /\ reqs[r].kind = "none"
  /\ IF r = 1 THEN TRUE ELSE reqs[r - 1].kind # "none"

\* client.torrents.find((t) => t.infoHash === infoHash): the first match, 0 if
\* none; a torrent whose join failed is no longer in client.torrents
Find(infoHash) ==
  LET hits == {t \in 1..Len(torrents) :
                 ~torrents[t].failed /\ torrents[t].infoHash = infoHash}
  IN  IF hits = {} THEN 0 ELSE SetMin(hits)

\* torrent.files.find((f) => f.name === filename): the first match, 0 if none
FindFile(files, filename) ==
  LET hits == {i \in 1..Len(files) : files[i].name = filename}
  IN  IF hits = {} THEN 0 ELSE SetMin(hits)

\* res.status(code).send(text) of /list-files
ListSend(req, code) ==
  [req EXCEPT !.phase = "done", !.statuses = Append(@, code)]

\* getFiles(torrent).then((files) => res.json(files)): the JSON answer when the
\* promise is fulfilled; when it is rejected nothing is ever written
Answer(req, t, files, zipOk) ==
  LET got == getFiles(build, files, zipOk)
  IN  IF got.ok
        THEN [req EXCEPT !.phase = "done", !.statuses = Append(@, 200),
                         !.body = got.files, !.session = t]
        ELSE [req EXCEPT !.phase = "rejected", !.session = t]

-----------------------------------------------------------------------------
(* GET /list-files/:magnet                                                 *)

\* if (!infoHash) return res.status(400).send('Invalid magnet link')
ListInvalidMagnet(r, m) ==
  /\ Fresh(r)
  /\ InfoHashOf[m] = Null
  /\ reqs' = [reqs EXCEPT ![r] = ListSend([@ EXCEPT !.kind = "list", !.magnet = m], 400)]
  /\ UNCHANGED <<zip, parse, fetch, build, torrents, stream, crashed>>

\* if (existingTorrent) return getFiles(existingTorrent).then(...)
ListExisting(r, m, zipOk) ==
  /\ Fresh(r)
  /\ InfoHashOf[m] # Null
  /\ Find(InfoHashOf[m]) # 0
  /\ LET t == Find(InfoHashOf[m])
     IN  reqs' = [reqs EXCEPT ![r] =
                    Answer([@ EXCEPT !.kind = "list", !.magnet = m],
                           t, torrents[t].files, zipOk)]
  /\ UNCHANGED <<zip, parse, fetch, build, torrents, stream, crashed>>

\* client.add(magnet, callback): a new torrent object, whose info-hash and file
\* list the engine fills in later; the request waits for the callback
ListAdd(r, m) ==
  /\ Fresh(r)
  /\ InfoHashOf[m] # Null
  /\ Find(InfoHashOf[m]) = 0
  /\ torrents' = Append(torrents, [magnet |-> m, by |-> r, infoHash |-> Null,
                                   ready |-> FALSE, failed |-> FALSE,
                                   files |-> <<>>])
  /\ reqs' = [reqs EXCEPT ![r] = [@ EXCEPT !.kind = "list", !.magnet = m,
                                             !.phase = "joining"]]
  /\ UNCHANGED <<zip, parse, fetch, build, stream, crashed>>

-----------------------------------------------------------------------------
(* The engine behind client.add (WebTorrent, not part of the repository).  *)
(* It learns the info-hash of an added torrent at some point after the     *)
(* call and the file list at some later point, when it runs the callback.  *)

\* the torrent's infoHash becomes visible to client.torrents.find
EngineRegister(t) ==
  /\ ~crashed
  /\ t \in 1..Len(torrents)
  /\ ~torrents[t].failed
  /\ torrents[t].infoHash = Null
  /\ torrents' = [torrents EXCEPT ![t].infoHash = EngineInfoHash(torrents[t].magnet)]
  /\ UNCHANGED <<zip, parse, fetch, build, reqs, stream, crashed>>

\* the file list arrives; the callback given to client.add runs:
\* (torrent) => { getFiles(torrent).then((files) => res.json(files)) }
EngineReady(t, zipOk) ==
  /\ ~crashed
  /\ t \in 1..Len(torrents)
  /\ ~torrents[t].failed
  /\ torrents[t].infoHash # Null
  /\ ~torrents[t].ready
  /\ LET files == SwarmFiles(torrents[t].infoHash)
     IN  /\ torrents' = [torrents EXCEPT ![t].ready = TRUE, ![t].files = files]
         /\ reqs' = [reqs EXCEPT ![torrents[t].by] = Answer(@, t, files, zipOk)]
  /\ UNCHANGED <<zip, parse, fetch, build, stream, crashed>>

-----------------------------------------------------------------------------
(* GET /stream/:magnet/:filename                                           *)

StreamFresh ==
  /\ ~crashed
  /\ stream.kind = "none"

\* res.status(code).send(text) of /stream
Send(req, code) ==
  [req EXCEPT !.phase = "done", !.statuses = Append(@, code),
              !.headersSent = TRUE, !.resEnded = TRUE]

Stream(m) == [stream EXCEPT !.kind = "stream", !.magnet = m]

\* if (!infoHash) return res.status(400).send('Invalid magnet link')
StreamInvalidMagnet(m) ==
  /\ StreamFresh
  /\ InfoHashOf[m] = Null
  /\ stream' = Send(Stream(m), 400)
  /\ UNCHANGED <<zip, parse, fetch, build, torrents, reqs, crashed>>

\* a stream handler that joins the swarm when it finds no torrent
StreamTorrentNotFound_Joins(m) ==
  /\ StreamFresh
  /\ InfoHashOf[m] # Null
  /\ Find(InfoHashOf[m]) = 0
  /\ torrents' = Append(torrents, [magnet |-> m, by |-> 0, infoHash |-> Null,
                                   ready |-> FALSE, failed |-> FALSE,
                                   files |-> <<>>])
  /\ stream' = [Stream(m) EXCEPT !.phase = "joining"]
  /\ UNCHANGED <<zip, parse, fetch, build, reqs, crashed>>

\* if (!torrent) return res.status(404).send('Torrent not found')
StreamTorrentNotFound(m) ==
  /\ StreamFresh
  /\ InfoHashOf[m] # Null
  /\ Find(InfoHashOf[m]) = 0
  /\ stream' = Send(Stream(m), 404)
  /\ UNCHANGED <<zip, parse, fetch, build, torrents, reqs, crashed>>

\* the handler finds the torrent and the file
Found(m, f) ==
  /\ InfoHashOf[m] # Null
  /\ Find(InfoHashOf[m]) # 0
  /\ FindFile(torrents[Find(InfoHashOf[m])].files, f) # 0

FoundFile(m, f) ==
  LET files == torrents[Find(InfoHashOf[m])].files
  IN  files[FindFile(files, f)]

\* if (!file) return res.status(404).send('File not found')
StreamFileNotFound(m, f) ==
  /\ StreamFresh
  /\ InfoHashOf[m] # Null
  /\ Find(InfoHashOf[m]) # 0
  /\ ~Found(m, f)
  /\ stream' = Send([Stream(m) EXCEPT !.filename = f,
                                      !.session = Find(InfoHashOf[m])], 404)
  /\ UNCHANGED <<zip, parse, fetch, build, torrents, reqs, crashed>>

\* whether the handler takes the Range path for the file: part_000 only for
\* getFileType(file.name) === 'video', api/index.js for every file
TakesRange(b, file) == b = "api_index" \/ FileType(b, file.name) = "video"

StreamFound(m, f, rg) ==
  [Stream(m) EXCEPT !.filename = f, !.range = rg,
                    !.session = Find(InfoHashOf[m]),
                    !.file = FoundFile(m, f)]

\* if (!range) return res.status(400).send('Requires Range header')
StreamMissingRange(m, f) ==
  /\ StreamFresh
  /\ Found(m, f)
  /\ TakesRange(build, FoundFile(m, f))
  /\ stream' = Send(StreamFound(m, f, Absent), 400)
  /\ UNCHANGED <<zip, parse, fetch, build, torrents, reqs, crashed>>

VideoMp4 == <<"v", "i", "d", "e", "o", "/", "m", "p", "4">>

\* the Range path: parse, res.writeHead(206, {...}),
\* file.createReadStream({ start, end: chunkEnd }), pipe
RangeResponse(req, text) ==
  LET parsed == ParseRange(text)
      start == parsed.start
      fileSize == req.file.length
      chunkEnd == ChunkEnd(start, parsed.end, fileSize)
  IN  [req EXCEPT
         !.phase = "streaming",
         !.statuses = Append(@, 206),
         !.headersSent = TRUE,
         !.head = [start |-> start, end |-> chunkEnd, size |-> fileSize,
                   length |-> ContentLength(start, chunkEnd), type |-> VideoMp4],
         !.read = [state |-> "open", bounded |-> TRUE, start |-> start,
                   end |-> chunkEnd, chunks |-> 0]]

StreamRange(m, f, text) ==
  /\ StreamFresh
  /\ Found(m, f)
  /\ TakesRange(build, FoundFile(m, f))
  /\ stream' = RangeResponse(StreamFound(m, f, Present(text)), text)
  /\ UNCHANGED <<zip, parse, fetch, build, torrents, reqs, crashed>>

ImageSlash == <<"i", "m", "a", "g", "e", "/">>

\* "Serve images directly": res.setHeader('Content-Type', `image/${ext}`) and
\* file.createReadStream().pipe(res), for every file that is not a video,
\* whatever the request's Range header
DirectResponse(req) ==
  LET ext == extname(req.file.name)
  IN  [req EXCEPT
         !.phase = "streaming",
         !.head = [NoHead EXCEPT !.type = ImageSlash \o SubSeq(ext, 2, Len(ext))],
         !.read = [state |-> "open", bounded |-> FALSE, start |-> Undefined,
                   end |-> Undefined, chunks |-> 0]]

StreamDirect(m, f, rg) ==
  /\ StreamFresh
  /\ Found(m, f)
  /\ ~TakesRange(build, FoundFile(m, f))
  /\ stream' = DirectResponse(StreamFound(m, f, rg))
  /\ UNCHANGED <<zip, parse, fetch, build, torrents, reqs, crashed>>

-----------------------------------------------------------------------------
(* The read stream piped into the response.                                *)

\* the first bytes written to a response without a status send 200
ImplicitHead(req) ==
  IF req.headersSent THEN req
  ELSE [req EXCEPT !.statuses = Append(@, 200), !.headersSent = TRUE]

\* the engine reads a chunk for the stream; while the stream is piped the chunk
\* is written to the response
ReadData ==
  /\ ~crashed
  /\ stream.read.state = "open"
  /\ stream.read.chunks < MaxChunks
  /\ stream' = [(IF stream.sinkClosed THEN stream ELSE ImplicitHead(stream))
                  EXCEPT !.read.chunks = @ + 1]
  /\ UNCHANGED <<zip, parse, fetch, build, torrents, reqs, crashed>>

\* the stream ends; pipe ends the response
ReadEnd ==
  /\ ~crashed
  /\ stream.read.state = "open"
  /\ ~stream.sinkClosed
  /\ stream' = [ImplicitHead(stream) EXCEPT !.read.state = "ended",
                                            !.resEnded = TRUE,
                                            !.phase = "completed"]
  /\ UNCHANGED <<zip, parse, fetch, build, torrents, reqs, crashed>>

\* the listeners stream.on('error') and res.on('close') exist only on the
\* Range path of part_000
HasListeners(b, req) == b = "part_000" /\ req.read.bounded

\* an error listener that answers 500 without looking at res.headersSent
OnStreamError_Unguarded(req) ==
  [req EXCEPT !.statuses = Append(@, 500), !.headersSent = TRUE, !.resEnded = TRUE]

\* stream.on('error', ...): if (!res.headersSent) res.status(500).end()
OnStreamError(req) ==
  IF ~req.headersSent
    THEN [req EXCEPT !.statuses = Append(@, 500), !.headersSent = TRUE,
                     !.resEnded = TRUE]
    ELSE req

\* the read source signals an error; without a listener the 'error' event is
\* thrown and ends the process
ReadError ==
  /\ ~crashed
  /\ stream.read.state = "open"
  /\ stream' = [(IF HasListeners(build, stream) THEN OnStreamError(stream) ELSE stream)
                  EXCEPT !.read.state = "errored", !.phase = "errored"]
  /\ crashed' = ~HasListeners(build, stream)
  /\ UNCHANGED <<zip, parse, fetch, build, torrents, reqs>>

\* res.on('close', ...): stream.destroy()
OnClose(req) ==
  IF req.read.state = "open" THEN [req EXCEPT !.read.state = "destroyed"] ELSE req

\* the client closes the connection before the response has ended; pipe only
\* unpipes the source
ClientClose ==
  /\ ~crashed
  /\ stream.phase \in {"streaming", "errored"}
  /\ ~stream.sinkClosed
  /\ ~stream.resEnded
  /\ stream' = [(IF HasListeners(build, stream) THEN OnClose(stream) ELSE stream)
                  EXCEPT !.sinkClosed = TRUE,
                         !.phase = IF @ = "streaming" THEN "aborted" ELSE @]
  /\ UNCHANGED <<zip, parse, fetch, build, torrents, reqs, crashed>>

-----------------------------------------------------------------------------

ListNext(ids) ==
  \/ \E r \in ids, m \in Magnets : ListInvalidMagnet(r, m)
  \/ \E r \in ids, m \in Magnets, zipOk \in BOOLEAN : ListExisting(r, m, zipOk)
  \/ \E r \in ids, m \in Magnets : ListAdd(r, m)
  \/ \E t \in ids : EngineRegister(t)
  \/ \E t \in ids, zipOk \in BOOLEAN : EngineReady(t, zipOk)

StreamNext ==
  \/ \E m \in Magnets : StreamInvalidMagnet(m)
  \/ \E m \in Magnets : StreamTorrentNotFound(m)
  \/ \E m \in Magnets, f \in FileNames : StreamFileNotFound(m, f)
  \/ \E m \in Magnets, f \in FileNames : StreamMissingRange(m, f)
  \/ \E m \in Magnets, f \in FileNames, text \in RangeTexts : StreamRange(m, f, text)
  \/ \E m \in Magnets, f \in FileNames, rg \in DirectHeaders : StreamDirect(m, f, rg)
  \/ ReadData
  \/ ReadEnd
  \/ ReadError
  \/ ClientClose

\* the /list-files requests and the engine alone
NextList == ListNext(1..MaxReq)

\* the /stream request next to /list-files requests
Next == ListNext(1..MaxBeside) \/ StreamNext

Spec == Init /\ [][Next]_vars

SpecList == Init /\ [][NextList]_vars

-----------------------------------------------------------------------------
(* /list-files when the join of a swarm can fail.                          *)

\* the engine gives up on a torrent before its file list arrived (no peers, a
\* magnet it cannot use, a tracker error). The code passes client.add only
\* the callback for success and registers no 'error' listener on the torrent
\* or the client: the failure is either thrown as an unhandled 'error' event,
\* which ends the process, or passes unnoticed; the torrent leaves
\* client.torrents
EngineFail(t, thrown) ==
  /\ ~crashed
  /\ t \in 1..Len(torrents)
  /\ ~torrents[t].ready
  /\ ~torrents[t].failed
  /\ torrents' = [torrents EXCEPT ![t].failed = TRUE]
  /\ crashed' = thrown
  /\ UNCHANGED <<build, reqs, stream, zip, parse, fetch>>

NextJoin ==
  \/ ListNext(1..MaxReq)
  \/ \E t \in 1..MaxReq, thrown \in BOOLEAN : EngineFail(t, thrown)

\* the event loop runs every callback that is due: an engine that can report
\* an info-hash or a file list does so
SpecJoin ==
  /\ Init
  /\ [][NextJoin]_vars
  /\ WF_vars(\E t \in 1..MaxReq : EngineRegister(t))
  /\ WF_vars(\E t \in 1..MaxReq, zipOk \in BOOLEAN : EngineReady(t, zipOk))

-----------------------------------------------------------------------------
(* extractZip(zipFile) of src/unnamed/part_000, event by event, on archives *)
(* of every central directory up to MaxEntries entries.                    *)

\* longest central directory tried
MaxEntries == 3

\* the entries a central directory is made of: a video, a directory, a
\* directory whose name ends like a video, a text file, an image in a folder
\* with an upper-case extension
EntryPool ==
  {[fileName |-> NameInner, uncompressedSize |-> 700],
   [fileName |-> <<"d", "/">>, uncompressedSize |-> 0],
   [fileName |-> <<"v", ".", "m", "p", "4", "/">>, uncompressedSize |-> 0],
   [fileName |-> <<"r", ".", "t", "x", "t">>, uncompressedSize |-> 10],
   [fileName |-> <<"d", "/", "q", ".", "J", "P", "G">>, uncompressedSize |-> 20]}

Directories == UNION {[1..n -> EntryPool] : n \in 0..MaxEntries}

\* the container handle given to extractZip
ZipHandle == RawFile(NameZip, 900)

\* extractZip(zipFile): new Promise, zipFile.createReadStream(callback)
ExtractZipCall(entries) ==
  /\ build = "part_000"
  /\ zip.state = "none"
  /\ zip' = [NoZip EXCEPT !.state = "opening", !.file = ZipHandle, !.entries = entries]
  /\ UNCHANGED <<build, torrents, reqs, stream, crashed, parse, fetch>>

\* (err, stream) => { if (err) return reject(err) ... }
ZipStreamError ==
  /\ zip.state = "opening"
  /\ zip' = [zip EXCEPT !.state = "rejected", !.error = "createReadStream"]
  /\ UNCHANGED <<build, torrents, reqs, stream, crashed, parse, fetch>>

\* the stream's 'data' events fill the buffer; on 'end' yauzl.fromBuffer is called
ZipStreamEnd ==
  /\ zip.state = "opening"
  /\ zip' = [zip EXCEPT !.state = "parsing"]
  /\ UNCHANGED <<build, torrents, reqs, stream, crashed, parse, fetch>>

\* yauzl.fromBuffer callback: if (err) return reject(err)
ZipParseError ==
  /\ zip.state = "parsing"
  /\ zip' = [zip EXCEPT !.state = "rejected", !.error = "fromBuffer"]
  /\ UNCHANGED <<build, torrents, reqs, stream, crashed, parse, fetch>>

\* yauzl.fromBuffer callback without error: zip.readEntry() and the listeners
ZipParsed ==
  /\ zip.state = "parsing"
  /\ zip' = [zip EXCEPT !.state = "walking"]
  /\ UNCHANGED <<build, torrents, reqs, stream, crashed, parse, fetch>>

\* the 'entry' event of the next entry: the handler, then zip.readEntry()
ZipEntry ==
  /\ zip.state = "walking"
  /\ zip.pos < Len(zip.entries)
  /\ zip' = [zip EXCEPT
               !.pos = @ + 1,
               !.extractedFiles =
                  OnEntry(build, zip.file, zip.entries[zip.pos + 1], @)]
  /\ UNCHANGED <<build, torrents, reqs, stream, crashed, parse, fetch>>

\* zip.on('end', () => resolve(extractedFiles)): readEntry past the last entry
ZipEnd ==
  /\ zip.state = "walking"
  /\ zip.pos = Len(zip.entries)
  /\ zip' = [zip EXCEPT !.state = "resolved"]
  /\ UNCHANGED <<build, torrents, reqs, stream, crashed, parse, fetch>>

NextZip ==
  \/ \E entries \in Directories : ExtractZipCall(entries)
  \/ ZipStreamError
  \/ ZipStreamEnd
  \/ ZipParseError
  \/ ZipParsed
  \/ ZipEntry
  \/ ZipEnd

SpecZip == Init /\ [][NextZip]_vars

-----------------------------------------------------------------------------
(* fetchMovies(endpoint, cacheKey) of src/api/index.js and the movie cache. *)

MAX_RETRIES == 3

MovieGood == [name |-> "Heat", poster |-> "heat.jpg", rating |-> "8.3"]
MovieNoPoster == [name |-> "Ran", poster |-> "", rating |-> "8.2"]
MovieNoRating == [name |-> "Solaris", poster |-> "solaris.jpg", rating |-> ""]

\* response.data.data of an upstream answer
UpstreamData ==
  {<<>>, <<MovieGood>>, <<MovieNoPoster, MovieGood>>, <<MovieNoRating>>}

\* movie => movie.name && movie.poster && movie.rating: '' is falsy
KeepMovie(movie) == movie.name # "" /\ movie.poster # "" /\ movie.rating # ""

\* response.data.data.filter(...)
FilterMovies(data) == SelectSeq(data, KeepMovie)

\* if (cachedMovies): undefined is falsy, an array (an empty one too) is truthy
IsCached(cachedMovies) == cachedMovies.has

\* a loop that also runs for attempt = MAX_RETRIES
LoopContinues_Inclusive(attempt) == attempt <= MAX_RETRIES

\* for (let attempt = 0; attempt < MAX_RETRIES; attempt++)
LoopContinues(attempt) == attempt < MAX_RETRIES

\* fetchMovies is called: cache.get(cacheKey); a hit is returned, a miss enters
\* the loop and issues the first axios.get
FetchMoviesCall(cacheKey) ==
  /\ build = "api_index"
  /\ fetch.pc \in {"none", "returned"}
  /\ LET cachedMovies == fetch.cache[cacheKey]
         call == [fetch EXCEPT !.cacheKey = cacheKey, !.cachedMovies = cachedMovies,
                               !.attempt = 0, !.requests = 0, !.sets = <<>>,
                               !.got = NoValue, !.result = NoValue]
     IN  fetch' = IF IsCached(cachedMovies)
                    THEN [call EXCEPT !.pc = "returned", !.result = cachedMovies]
                  ELSE IF LoopContinues(0)
                    THEN [call EXCEPT !.pc = "awaiting", !.requests = 1]
                  ELSE [call EXCEPT !.pc = "returned", !.result = Value(<<>>)]
  /\ UNCHANGED <<build, torrents, reqs, stream, crashed, zip, parse>>

\* the awaited axios.get is fulfilled: filter, cache.set(cacheKey, movies),
\* return movies
FetchResponse(data) ==
  /\ fetch.pc = "awaiting"
  /\ LET movies == FilterMovies(data)
     IN  fetch' = [fetch EXCEPT
                     !.cache[fetch.cacheKey] = Value(movies),
                     !.sets = Append(@, [key |-> fetch.cacheKey, value |-> movies]),
                     !.got = Value(data),
                     !.result = Value(movies),
                     !.pc = "returned"]
  /\ UNCHANGED <<build, torrents, reqs, stream, crashed, zip, parse>>

\* the awaited axios.get is rejected (network error, timeout of 15000 ms, a
\* body without data.data): catch, attempt++, and either the next axios.get
\* or, after the loop, return cachedMovies || []
FetchError ==
  /\ fetch.pc = "awaiting"
  /\ fetch' = IF LoopContinues(fetch.attempt + 1)
                 THEN [fetch EXCEPT !.attempt = @ + 1, !.requests = @ + 1]
                 ELSE [fetch EXCEPT
                         !.attempt = @ + 1,
                         !.pc = "returned",
                         !.result = IF IsCached(fetch.cachedMovies)
                                      THEN fetch.cachedMovies ELSE Value(<<>>)]
  /\ UNCHANGED <<build, torrents, reqs, stream, crashed, zip, parse>>

\* stdTTL: an entry of the cache expires
CacheExpire(key) ==
  /\ build = "api_index"
  /\ fetch.cache[key].has
  /\ fetch' = [fetch EXCEPT !.cache[key] = NoValue]
  /\ UNCHANGED <<build, torrents, reqs, stream, crashed, zip, parse>>

NextFetch ==
  \/ \E cacheKey \in CacheKeys : FetchMoviesCall(cacheKey)
  \/ \E data \in UpstreamData : FetchResponse(data)
  \/ FetchError
  \/ \E key \in CacheKeys : CacheExpire(key)

SpecFetch == Init /\ [][NextFetch]_vars

-----------------------------------------------------------------------------
(* extractInfoHash(magnet) on magnet texts built around a urn:btih: token. *)

UrnNoColon == <<"u", "r", "n", ":", "b", "t", "i", "h">>

\* the digits that follow the token: hashes in lower and mixed case, one digit
\* short, a letter that is no hex digit in the last place, one digit more
HashTexts ==
  {HashA, HashAMixed, HashB,
   Rep("a", HashLen - 1),
   Rep("a", HashLen - 1) \o <<"g">>,
   Rep("a", HashLen + 1),
   HashAMixed \o <<"F">>}

\* the magnet texts given to extractInfoHash
ParseInputs ==
  {pre \o urn \o digits \o post :
     pre \in {<<>>, Pre}, urn \in {UrnBtih, UrnNoColon, <<>>},
     digits \in HashTexts, post \in {<<>>, Post}}

\* const infoHash = extractInfoHash(magnet)
CallExtractInfoHash(magnet) ==
  /\ parse.state = "none"
  /\ parse' = [state |-> "returned", magnet |-> magnet,
               infoHash |-> extractInfoHash(magnet)]
  /\ UNCHANGED <<build, torrents, reqs, stream, crashed, zip, fetch>>

NextParse == \E magnet \in ParseInputs : CallExtractInfoHash(magnet)

SpecParse == Init /\ [][NextParse]_vars

-----------------------------------------------------------------------------
(* The claims.                                                             *)

InfoHashes == {HashA, HashB}

\* the client.add calls issued for an info-hash, and the sessions the registry
\* holds for it
JoinsFor(h) == {t \in 1..Len(torrents) : EngineInfoHash(torrents[t].magnet) = h}
SessionsFor(h) == {t \in 1..Len(torrents) : torrents[t].infoHash = h}

\* a magnet text holds `urn:btih:` followed by 40 hexadecimal digits
WellFormedMagnet(m) ==
  \E i \in 1..Len(m) :
    /\ i + Len(UrnBtih) + HashLen - 1 <= Len(m)
    /\ SubSeq(m, i, i + Len(UrnBtih) - 1) = UrnBtih
    /\ \A k \in 1..HashLen : m[i + Len(UrnBtih) - 1 + k] \in HexDigit

\* C1: however /list-files requests for one never-seen info-hash interleave,
\* exactly one client.add is issued for it, the registry holds at most one
\* session for it, and every answer comes from that one session.
C1_OneJoinPerInfoHash ==
  \A h \in InfoHashes :
    /\ Cardinality(JoinsFor(h)) <= 1
    /\ Cardinality(SessionsFor(h)) <= 1
    /\ \A r \in ReqIds :
         (reqs[r].session # 0 /\ EngineInfoHash(reqs[r].magnet) = h)
           => JoinsFor(h) = {reqs[r].session}

\* a /list-files request for h has completed from a session that is Ready and
\* registered
Completed(q, h) ==
  /\ reqs[q].phase = "done"
  /\ reqs[q].statuses = <<200>>
  /\ EngineInfoHash(reqs[q].magnet) = h
  /\ reqs[q].session \in SessionsFor(h)
  /\ torrents[reqs[q].session].ready

\* C2: once a /list-files request for h has completed, a later /list-files
\* request for h (any casing, any surrounding parameters) issues no join,
\* leaves the registry unchanged and answers from the same session.
C2_SequentialIdempotence ==
  [][\A r \in ReqIds, q \in ReqIds, h \in InfoHashes :
       (/\ Completed(q, h)
        /\ reqs[r].kind = "none"
        /\ reqs'[r].kind = "list"
        /\ EngineInfoHash(reqs'[r].magnet) = h)
         => /\ torrents' = torrents
            /\ reqs'[r].session = reqs[q].session]_vars

\* the magnets of the model that lack the token
MalformedMagnets == {m \in Magnets : ~WellFormedMagnet(m)}

\* C3: a request whose magnet lacks a well-formed urn:btih:<40-hex> token is
\* answered 400 by /list-files and by /stream, and causes no join, no session
\* and no read.
C3_InvalidMagnetRejected ==
  /\ \A r \in ReqIds :
       (reqs[r].kind = "list" /\ reqs[r].magnet \in MalformedMagnets)
         => /\ reqs[r].statuses = <<400>>
            /\ reqs[r].phase = "done"
            /\ reqs[r].session = 0
            /\ reqs[r].body = <<>>
  /\ (stream.kind = "stream" /\ stream.magnet \in MalformedMagnets)
       => /\ stream.statuses = <<400>>
          /\ stream.phase = "done"
          /\ stream.session = 0
          /\ stream.read.state = "none"
  /\ \A t \in 1..Len(torrents) : torrents[t].magnet \notin MalformedMagnets

\* both handlers have rejected a malformed magnet while a session exists
C3_Witness ==
  /\ \E r \in ReqIds : reqs[r].magnet = MagShort /\ reqs[r].statuses = <<400>>
  /\ stream.magnet = MagShort /\ stream.statuses = <<400>>
  /\ Len(torrents) > 0

\* C4: no step of a /stream request issues a join or changes the registry,
\* and a /stream request for an info-hash without a registered session is
\* answered 404 and opens no read.
C4_StreamNonCreating ==
  [][(stream' # stream)
       => /\ torrents' = torrents
          /\ (/\ stream.kind = "none"
              /\ EngineInfoHash(stream'.magnet) \in InfoHashes
              /\ SessionsFor(EngineInfoHash(stream'.magnet)) = {})
               => /\ stream'.statuses = <<404>>
                  /\ stream'.phase = "done"
                  /\ stream'.read.state = "none"]_vars

\* a /stream request was answered 404 for want of a session while the
\* registry holds the session of another info-hash
C4_Witness ==
  /\ stream.statuses = <<404>>
  /\ stream.session = 0
  /\ EngineInfoHash(stream.magnet) = HashB
  /\ SessionsFor(HashA) # {}
  /\ SessionsFor(HashB) = {}

\* C5: for `bytes=start-` with 0 <= start < L the end sent is
\* min(start + 1,000,000 - 1, L - 1) and Content-Length is at most 1,000,000.
C5_DefaultWindow ==
  \A s \in OpenStarts :
    (/\ stream.range = Present(OpenRange(s))
     /\ stream.statuses = <<206>>
     /\ s < stream.file.length)
      => /\ stream.head.end = Num(Min2(s + ChunkSize - 1, stream.file.length - 1))
         /\ stream.head.length = Num(stream.head.end.v - s + 1)
         /\ stream.head.length.v <= ChunkSize

\* C6: a Range header `bytes=start-end` on an existing file of length L that
\* does not satisfy start <= end < L is answered 400: no 206, no read.
C6_InvalidRangeRejected ==
  \A p \in ClosedPairs :
    (/\ stream.file # NoFile
     /\ stream.range = Present(ClosedRange(p[1], p[2]))
     /\ ~(p[1] <= p[2] /\ p[2] < stream.file.length))
      => /\ stream.statuses = <<400>>
         /\ stream.read.state = "none"

\* C7: no reachable state has a closed response sink whose read is still open.
C7_DisconnectReleasesRead ==
  ~(stream.sinkClosed /\ stream.read.state = "open")

\* C8: a /stream request that finds its file and carries no Range header is
\* answered 400 and opens no read, for video and image files alike.
C8_MissingRangeRejected ==
  (stream.file # NoFile /\ ~stream.range.present)
    => /\ stream.statuses = <<400>>
       /\ stream.read.state = "none"

\* C9: every request has written at most one status; a 500 is never written
\* after the 206 headers.
C9_SingleStatus ==
  /\ Len(stream.statuses) <= 1
  /\ \A r \in ReqIds : Len(reqs[r].statuses) <= 1

\* the error listener ran after the 206 headers were sent
C9_Witness ==
  /\ HasListeners(build, stream)
  /\ stream.read.state = "errored"
  /\ stream.statuses = <<206>>

\* C10: every entry of a catalog /list-files returns has type video or image;
\* no raw file classified other and no .zip container is listed.
C10_CatalogKinds ==
  \A r \in ReqIds :
    \A i \in 1..Len(reqs[r].body) :
      /\ reqs[r].body[i].type \in {"video", "image"}
      /\ toLowerCase(extname(reqs[r].body[i].name)) # ZipExt

\* what the claim says an archive yields: one record per entry that is no
\* directory and is video or image, in entry order
Qualifies(entry) ==
  /\ ~EndsWithSlash(entry.fileName)
  /\ getFileType("part_000", entry.fileName) \in {"video", "image"}

Expected(zipFile, entries) ==
  LET kept == SelectSeq(entries, Qualifies)
  IN  [i \in 1..Len(kept) |->
         [name |-> kept[i].fileName, length |-> kept[i].uncompressedSize,
          path |-> zipFile.path \o <<"/">> \o kept[i].fileName]]

\* C11: an archive that is read and parsed resolves after its last entry, with
\* exactly one record (name, uncompressed size, <archive path>/<entry name>)
\* per entry that is no directory and is video or image; directories and
\* other entries yield nothing.
C11_ArchiveExpansion ==
  /\ zip.pos <= Len(zip.entries)
  /\ zip.state = "resolved" =>
       /\ zip.pos = Len(zip.entries)
       /\ [i \in 1..Len(zip.extractedFiles) |->
             [name |-> zip.extractedFiles[i].name,
              length |-> zip.extractedFiles[i].length,
              path |-> zip.extractedFiles[i].path]]
          = Expected(zip.file, zip.entries)
       /\ \A i \in 1..Len(zip.extractedFiles) :
             zip.extractedFiles[i].type \in {"video", "image"}

\* an archive of a media-named directory, a text file and an image resolved
\* with the image alone
C11_Witness ==
  /\ zip.state = "resolved"
  /\ Len(zip.entries) = MaxEntries
  /\ \E i \in 1..Len(zip.entries) :
       /\ EndsWithSlash(zip.entries[i].fileName)
       /\ getFileType("part_000", zip.entries[i].fileName) = "video"
  /\ \E i \in 1..Len(zip.entries) :
       getFileType("part_000", zip.entries[i].fileName) = "other"
  /\ Len(zip.extractedFiles) = 1
  /\ zip.extractedFiles[1].type = "image"

\* the places of a text where `urn:btih:` is followed by 40 hexadecimal digits
Tokens(m) ==
  {i \in 1..Len(m) :
     /\ i + Len(UrnBtih) + HashLen - 1 <= Len(m)
     /\ SubSeq(m, i, i + Len(UrnBtih) - 1) = UrnBtih
     /\ \A k \in 1..HashLen : m[i + Len(UrnBtih) - 1 + k] \in HexDigit}

\* the 40 digits of the first token of a text
TokenDigits(m) ==
  LET i == SetMin(Tokens(m))
  IN  SubSeq(m, i + Len(UrnBtih), i + Len(UrnBtih) + HashLen - 1)

\* c and d are one hexadecimal digit, whatever the case of either
SameHexDigit(c, d) ==
  \/ c = d
  \/ {c, d} \in {{"a", "A"}, {"b", "B"}, {"c", "C"}, {"d", "D"}, {"e", "E"}, {"f", "F"}}

SameHash(g, h) ==
  Len(g) = Len(h) /\ \A k \in 1..Len(g) : SameHexDigit(g[k], h[k])

C13_ListingAwaitsReadiness ==
  [][\A r \in ReqIds :
       (reqs[r].statuses = <<>> /\ reqs'[r].statuses = <<200>>) =>
         /\ reqs'[r].session # 0
         /\ torrents'[reqs'[r].session].ready
         /\ reqs'[r].body =
              getFiles(build, SwarmFiles(EngineInfoHash(reqs'[r].magnet)), TRUE).files]_vars

\* the join that request r started has failed
JoinFailed(r) ==
  \E t \in 1..Len(torrents) : torrents[t].by = r /\ torrents[t].failed

\* C14: every /list-files request with a valid magnet is eventually answered,
\* exactly once, and a request whose join failed is eventually answered with
\* a failure status.
C14_JoinFailureSurfaces ==
  \A r \in ReqIds :
    /\ (reqs[r].kind = "list" /\ InfoHashOf[reqs[r].magnet] # Null)
         ~> (Len(reqs[r].statuses) = 1)
    /\ JoinFailed(r)
         ~> (Len(reqs[r].statuses) = 1 /\ reqs[r].statuses[1] >= 400)

\* the catalog promise of request r was rejected: an archive of its session
\* could not be read or parsed
ArchiveFailed(r) == reqs[r].phase = "rejected"

\* C15: a request whose session holds an archive that fails to read or parse
\* is still answered 200, with every video and image among the raw files.
C15_ArchiveFailureContained ==
  \A r \in ReqIds :
    ArchiveFailed(r) =>
      /\ reqs[r].statuses = <<200>>
      /\ LET files == torrents[reqs[r].session].files
         IN  \A i \in 1..Len(files) :
               getFileType(build, files[i].name) \in {"video", "image"} =>
                 \E j \in 1..Len(reqs[r].body) : reqs[r].body[j].name = files[i].name

\* the names /list-files returns for session t
CatalogNames(t) ==
  LET catalog == getFiles(build, torrents[t].files, TRUE).files
  IN  {catalog[j].name : j \in 1..Len(catalog)}

\* C16: when a /stream request is handled for a Ready session, the name is
\* found (no 404) if /list-files returns it for that session, entries from
\* inside a ZIP container included, and answers 404 if it is in no catalog
\* entry of the session.
C16_ListStreamConsistency ==
  [][(/\ stream.kind = "none"
      /\ stream'.kind = "stream"
      /\ stream'.session # 0
      /\ torrents[stream'.session].ready)
       => (stream'.filename \in CatalogNames(stream'.session)
             <=> stream'.statuses # <<404>>)]_vars

\* C17: once the read source of a /stream response has signalled an error
\* after the headers were sent, the server has ended or aborted the response:
\* it is not left open to a client that still waits for bytes.
C17_ReadErrorTerminates ==
  (/\ stream.read.state = "errored"
   /\ stream.headersSent
   /\ ~stream.sinkClosed)
    => stream.resEnded

\* C18: a 206 response to `bytes=start-end` with 0 <= start <= end < L, end = 0
\* included, announces and reads exactly start..end, with Content-Length
\* end - start + 1: the default window is not applied to an explicit end.
C18_ExplicitEndHonoured ==
  \A p \in ClosedPairs :
    (/\ stream.range = Present(ClosedRange(p[1], p[2]))
     /\ stream.statuses = <<206>>
     /\ 0 <= p[1] /\ p[1] <= p[2] /\ p[2] < stream.file.length)
      => /\ stream.head.start = Num(p[1])
         /\ stream.head.end = Num(p[2])
         /\ stream.head.length = Num(p[2] - p[1] + 1)
         /\ stream.read.end = Num(p[2])

\* C19: whenever a /stream request has opened a read, for a video or an image,
\* its status is 206 and the read is bounded to the start..end its
\* Content-Range announces, with Content-Length end - start + 1; no read of a
\* whole file is opened and no response goes without Content-Range.
C19_BoundedPartialResponse ==
  stream.read.state # "none" =>
    /\ stream.statuses = <<206>>
    /\ stream.read.bounded
    /\ IsNum(stream.head.start) /\ IsNum(stream.head.end)
    /\ stream.read.start = stream.head.start
    /\ stream.read.end = stream.head.end
    /\ stream.head.length = Num(stream.head.end.v - stream.head.start.v + 1)

\* a movie with a name, a poster and a rating
Complete(movie) == movie.name # "" /\ movie.poster # "" /\ movie.rating # ""

\* C20: a fetchMovies call issues no upstream request when the cache holds a
\* value for its key and returns that value; otherwise it issues at most 3
\* requests, one at a time, and stops at the first that succeeds, whose
\* complete movies it stores under its key and returns; when 3 have failed it
\* returns the empty list and has stored nothing.
C20_BoundedRetry ==
  /\ fetch.requests <= 3
  /\ fetch.pc = "awaiting" =>
       /\ ~fetch.cachedMovies.has
       /\ fetch.requests = fetch.attempt + 1
       /\ fetch.sets = <<>>
  /\ fetch.pc = "returned" =>
       IF fetch.cachedMovies.has
         THEN /\ fetch.requests = 0
              /\ fetch.result = fetch.cachedMovies
              /\ fetch.sets = <<>>
       ELSE IF fetch.got.has
         THEN /\ fetch.requests \in 1..3
              /\ fetch.result = Value(SelectSeq(fetch.got.value, Complete))
              /\ fetch.sets = <<[key |-> fetch.cacheKey, value |-> fetch.result.value]>>
       ELSE /\ fetch.requests = 3
            /\ fetch.result = Value(<<>>)
            /\ fetch.sets = <<>>

\* a call that missed the cache returned the empty list after 3 failed requests
C20_Witness ==
  /\ fetch.pc = "returned"
  /\ ~fetch.cachedMovies.has
  /\ ~fetch.got.has
  /\ fetch.requests = 3
  /\ fetch.result = Value(<<>>)

====
